---- MODULE Spec2Model ----
(***************************************************************************)
(* The three one-shot text services of backend/python:                     *)
(*   classification_service.py, embedding_service.py, ner_service.py.      *)
(* One process is modelled at a time: it starts with its command line,     *)
(* runs the entrypoint of one service to the end and exits.  The           *)
(* pretrained models are external collaborators: what they answer (or      *)
(* that they raise) is chosen nondeterministically when the process runs   *)
(* and is kept in `oracle`.                                                *)
(*                                                                         *)
(* argv[k] stands for sys.argv[k]; the program name sys.argv[0] is left    *)
(* out, so len(sys.argv) < 2 is Len(argv) < 1.                             *)
(* Floats (scores, thresholds) are counted in tenths: 5 is 0.5.            *)
(***************************************************************************)
EXTENDS Integers, Sequences, FiniteSets, TLC

VARIABLES
    pc,        \* "ready": no process is running; "exited": the process ended
    svc,       \* the service the last process ran
    argv,      \* its command line
    oracle,    \* what the external model answers in this process
    calls,     \* the calls made to the external model, in order
    result,    \* <<>> or <<envelope>>: what the pipeline function returned
    stdout,    \* the documents printed to standard output, in order
    exitCode,  \* the exit code of the process
    uncaught   \* "" or the exception that ended the process

vars == <<pc, svc, argv, oracle, calls, result, stdout, exitCode, uncaught>>

(***************************************************************************)
(* Bounds of the model.                                                    *)
(***************************************************************************)
MaxLabels == 2     \* longest labels / scores array the classifier returns
MaxWordLen == 4    \* longest word of an entity the NER pipeline returns
MaxEntities == 1   \* most entities the NER pipeline returns

Min(a, b) == IF a < b THEN a ELSE b

SeqsUpTo(S, n) == UNION {[1..k -> S] : k \in 0..n}

(***************************************************************************)
(* Python values that cross json.loads / str(): kind, str() of the value   *)
(* and, for a list, its items.                                             *)
(***************************************************************************)
PyNone == [kind |-> "none", s |-> "None", items |-> <<>>]
PyStrV(x) == [kind |-> "str", s |-> x, items |-> <<>>]
PyNum(repr) == [kind |-> "num", s |-> repr, items |-> <<>>]
PyBool(repr) == [kind |-> "bool", s |-> repr, items |-> <<>>]
PyDict(repr) == [kind |-> "dict", s |-> repr, items |-> <<>>]
PyList(xs) == [kind |-> "list", s |-> "", items |-> xs]
JSONDecodeError == [kind |-> "JSONDecodeError", s |-> "", items |-> <<>>]

\* json.loads on the command-line strings the model uses; any other string
\* here is not JSON.
JsonLoads(a) ==
    CASE a = "[\"python\", \"react\"]" -> PyList(<<PyStrV("python"), PyStrV("react")>>)
      [] a = "[\"a\", \"b\"]" -> PyList(<<PyStrV("a"), PyStrV("b")>>)
      [] a = "[\"a\"]" -> PyList(<<PyStrV("a")>>)
      [] a = "[]" -> PyList(<<>>)
      [] a = "[1, \"a\"]" -> PyList(<<PyNum("1"), PyStrV("a")>>)
      [] a = "\"a\"" -> PyStrV("a")
      [] a = "null" -> PyNone
      [] a = "true" -> PyBool("True")
      [] a = "42" -> PyNum("42")
      [] a = "1e3" -> PyNum("1000.0")
      [] a = "{\"a\": 1}" -> PyDict("{'a': 1}")
      [] OTHER -> JSONDecodeError

\* json.dumps of a list of texts (default separators).
JsonDumpsTexts(xs) ==
    CASE xs = <<>> -> "[]"
      [] xs = <<"a">> -> "[\"a\"]"
      [] xs = <<"a", "b">> -> "[\"a\", \"b\"]"
      [] OTHER -> "unsupported"

\* str(v)
PyStr(v) == v.s

\* float(s) on the threshold arguments the model uses, in tenths; any other
\* string raises ValueError.
PyFloat(a) ==
    CASE a = "0.3" -> [ok |-> TRUE, v |-> 3]
      [] a = "0.5" -> [ok |-> TRUE, v |-> 5]
      [] a = "0.8" -> [ok |-> TRUE, v |-> 8]
      [] OTHER -> [ok |-> FALSE, v |-> 0]

NoInputEnvelope == [success |-> FALSE, error |-> "No input text provided"]

(***************************************************************************)
(* classification_service.py                                               *)
(***************************************************************************)
DefaultSkillNames ==
    <<"javascript", "python", "java", "react", "angular", "vue", "node.js",
      "express", "mongodb", "postgresql", "mysql", "aws", "azure", "gcp",
      "docker", "kubernetes", "git", "html", "css", "typescript",
      "graphql", "rest api", "microservices", "ci/cd", "jenkins",
      "agile", "scrum", "sql", "nosql", "redis", "elasticsearch",
      "machine learning", "artificial intelligence", "data science",
      "tensorflow", "pytorch", "spring boot", "django", "flask",
      "dotnet", "c#", "go", "rust", "php", "ruby", "rails">>

DEFAULT_SKILLS == PyList([i \in 1..Len(DefaultSkillNames) |-> PyStrV(DefaultSkillNames[i])])

DefaultThreshold == 5

\* The scores the classifier may give, in tenths.
Scores == {3, 5, 8}

\* The labels the classifier may name for a candidate list: the first
\* MaxLabels candidates (a str candidate is one label).
LabelPool(cands) ==
    IF cands.kind = "list"
    THEN {cands.items[i].s : i \in 1..Min(Len(cands.items), MaxLabels)}
    ELSE {cands.s}

\* What the classifier may do with (text, labels, multi_label=True): raise,
\* answer without the 'labels' key, or answer labels and scores arrays.
ClassifierOutcomes(cands) ==
    {[kind |-> "raise", msg |-> "inference failed", labels |-> <<>>, scores |-> <<>>],
     [kind |-> "nokeys", msg |-> "", labels |-> <<>>, scores |-> <<>>]}
    \cup
    {[kind |-> "ok", msg |-> "", labels |-> l, scores |-> s] :
        l \in SeqsUpTo(LabelPool(cands), MaxLabels), s \in SeqsUpTo(Scores, MaxLabels)}

\* zip(labels, scores)
Zip(labels, scores) ==
    [i \in 1..Min(Len(labels), Len(scores)) |-> <<labels[i], scores[i]>>]

Keep_Strict(score, threshold) == score > threshold

Keep_Reversed(score, threshold) == score <= threshold

\* if score >= threshold
Keep(score, threshold) == score >= threshold

SkillResult(label, score) ==
    [skill |-> label, confidence |-> score, method |-> "zero-shot-classification"]

\* The loop over zip(results['labels'], results['scores']): skills after
\* the pairs from index i on have been visited.
RECURSIVE FilterLoop(_, _, _, _)
FilterLoop(pairs, threshold, i, skills) ==
    IF i > Len(pairs) THEN skills
    ELSE FilterLoop(pairs, threshold, i + 1,
                    IF Keep(pairs[i][2], threshold)
                    THEN Append(skills, SkillResult(pairs[i][1], pairs[i][2]))
                    ELSE skills)

ClassifySuccess(skills) ==
    [success |-> TRUE, skills |-> skills, count |-> Len(skills)]

ClassifyFailure(msg) ==
    [success |-> FALSE, error |-> msg, skills |-> <<>>]

ClassifierCall(text, labels) ==
    [fn |-> "classifier", text |-> text, labels |-> labels, multi_label |-> TRUE]

\* classify_skills(text, candidate_labels, threshold) when the classifier
\* behaves as orc: the envelope returned and the calls made.
classify_skills(text, candidate_labels, threshold, orc) ==
    LET labels == IF candidate_labels = PyNone THEN DEFAULT_SKILLS ELSE candidate_labels
        ret == CASE orc.kind = "raise" -> ClassifyFailure(orc.msg)
                 [] orc.kind = "nokeys" -> ClassifyFailure("'labels'")
                 [] OTHER ->
                      ClassifySuccess(
                          FilterLoop(Zip(orc.labels, orc.scores), threshold, 1, <<>>))
    IN [ret |-> ret, calls |-> <<ClassifierCall(text, labels)>>]

ClsTexts == {"I know python and react"}
ClsThresholdArgs == {"0.3", "0.5", "0.8", "abc"}
ClsLabelArgs == {"[\"python\", \"react\"]", "[]", "null", "[python"}

ClsArgvs ==
    {<<>>}
    \cup {<<t>> : t \in ClsTexts}
    \cup {<<t, th>> : t \in ClsTexts, th \in ClsThresholdArgs}
    \cup {<<t, th, l>> : t \in ClsTexts, th \in ClsThresholdArgs, l \in ClsLabelArgs}

NoOracle == [kind |-> "unused"]

\* The process ends: what it printed, its exit code, the uncaught exception.
Exits(s, a, orc, cl, res, out, code, exc) ==
    /\ pc' = "exited"
    /\ svc' = s
    /\ argv' = a
    /\ oracle' = orc
    /\ calls' = cl
    /\ result' = res
    /\ stdout' = out
    /\ exitCode' = code
    /\ uncaught' = exc

\* threshold = float(sys.argv[2]) if len(sys.argv) > 2 else 0.5
ClsThreshold(a) == IF Len(a) > 1 THEN PyFloat(a[2]) ELSE [ok |-> TRUE, v |-> DefaultThreshold]

\* custom_skills = json.loads(sys.argv[3]) if len(sys.argv) > 3 else None
ClsCustomSkills(a) == IF Len(a) > 2 THEN JsonLoads(a[3]) ELSE PyNone

\* The entrypoint of classification_service.py.
ClassificationMain ==
    /\ pc = "ready"
    /\ \E a \in ClsArgvs :
         IF Len(a) < 1
         THEN Exits("classification", a, NoOracle, <<>>, <<>>, <<NoInputEnvelope>>, 1, "")
         ELSE IF ~ClsThreshold(a).ok
         THEN Exits("classification", a, NoOracle, <<>>, <<>>, <<>>, 1, "ValueError")
         ELSE IF ClsCustomSkills(a) = JSONDecodeError
         THEN Exits("classification", a, NoOracle, <<>>, <<>>, <<>>, 1, "JSONDecodeError")
         ELSE \E orc \in ClassifierOutcomes(
                            IF ClsCustomSkills(a) = PyNone
                            THEN DEFAULT_SKILLS ELSE ClsCustomSkills(a)) :
                LET r == classify_skills(a[1], ClsCustomSkills(a), ClsThreshold(a).v, orc)
                IN Exits("classification", a, orc, r.calls, <<r.ret>>, <<r.ret>>, 0, "")

(***************************************************************************)
(* embedding_service.py                                                    *)
(*                                                                         *)
(* Tensors are sequences: a batch is a sequence of rows, a row a sequence  *)
(* of tokens, a hidden vector a sequence of integers.                      *)
(***************************************************************************)
\* What the tokenizer and the encoder make of one text: its tokens (hidden
\* vector h, attention mask m: m = 0 is a padded position), or a raise in
\* the tokenizer or in the forward pass.
RowOutcomes ==
    {[kind |-> "tokenizer_raises", tokens |-> <<>>],
     [kind |-> "model_raises", tokens |-> <<>>],
     [kind |-> "ok", tokens |-> <<[h |-> <<2, 0>>, m |-> 1], [h |-> <<0, 2>>, m |-> 1]>>],
     [kind |-> "ok", tokens |-> <<[h |-> <<3, 4>>, m |-> 1], [h |-> <<9, 9>>, m |-> 0]>>],
     [kind |-> "ok", tokens |-> <<[h |-> <<0 - 2, 4>>, m |-> 1]>>],
     [kind |-> "ok", tokens |-> <<[h |-> <<1, 1>>, m |-> 0]>>]}

\* The str items of a list of Python values.
StrItems(texts) == {texts[i].s : i \in {j \in 1..Len(texts) : texts[j].kind = "str"}}

\* The encoders a process may meet for the texts it passes: each text has
\* its own outcome, the same whenever it is passed.
Encoders(texts) == [StrItems(texts) -> RowOutcomes]

AllStr(texts) == \A i \in 1..Len(texts) : texts[i].kind = "str"

\* tokenizer(texts, padding=True, truncation=True, return_tensors='pt'):
\* raises on an empty batch, on an item that is no str, or when the oracle
\* says so; else the attention mask of every row.
Tokenizer(texts, enc) ==
    IF texts = <<>> THEN [ok |-> FALSE, msg |-> "empty batch", attention_mask |-> <<>>]
    ELSE IF ~AllStr(texts) THEN [ok |-> FALSE, msg |-> "text input must be of type str", attention_mask |-> <<>>]
    ELSE IF \E i \in 1..Len(texts) : enc[texts[i].s].kind = "tokenizer_raises"
    THEN [ok |-> FALSE, msg |-> "tokenizer failed", attention_mask |-> <<>>]
    ELSE [ok |-> TRUE, msg |-> "",
          attention_mask |->
              [i \in 1..Len(texts) |->
                  [t \in 1..Len(enc[texts[i].s].tokens) |-> enc[texts[i].s].tokens[t].m]]]

\* model(**encoded_input): raises when the oracle says so; else
\* model_output[0], the hidden vector of every token of every row.
Model(texts, enc) ==
    IF \E i \in 1..Len(texts) : enc[texts[i].s].kind = "model_raises"
    THEN [ok |-> FALSE, msg |-> "forward pass failed", token_embeddings |-> <<>>]
    ELSE [ok |-> TRUE, msg |-> "",
          token_embeddings |->
              [i \in 1..Len(texts) |->
                  [t \in 1..Len(enc[texts[i].s].tokens) |-> enc[texts[i].s].tokens[t].h]]]

RECURSIVE SumTo(_, _)
\* f[1] + ... + f[n]
SumTo(f, n) == IF n = 0 THEN 0 ELSE f[n] + SumTo(f, n - 1)

\* mean_pooling of one row: sum(h * m) / clamp(sum(m), min=1e-9), as the
\* fraction num / den.  A mask sum is 0 or at least 1; when it is 0 the
\* numerator is the zero vector, so 0 / 1e-9 is written 0 / 1.
MeanPoolRow(hs, ms) ==
    LET s == SumTo(ms, Len(ms))
    IN [num |-> [d \in 1..Len(hs[1]) |-> SumTo([t \in 1..Len(hs) |-> hs[t][d] * ms[t]], Len(hs))],
        den |-> IF s = 0 THEN 1 ELSE s]

mean_pooling(token_embeddings, attention_mask) ==
    [i \in 1..Len(token_embeddings) |-> MeanPoolRow(token_embeddings[i], attention_mask[i])]

Abs(x) == IF x < 0 THEN 0 - x ELSE x

RECURSIVE Gcd(_, _)
Gcd(a, b) == IF b = 0 THEN a ELSE Gcd(b, a % b)

RECURSIVE GcdTo(_, _)
GcdTo(v, n) == IF n = 0 THEN 0 ELSE Gcd(Abs(v[n]), GcdTo(v, n - 1))

\* F.normalize(x, p=2, dim=1) of one row: x / max(||x||, 1e-12).  The unit
\* vector of num / den (den > 0) is written as the primitive integer vector
\* on its ray: two rows get the same value iff they normalise to the same
\* unit vector.  The zero vector stays zero.
NormalizeRow(row) ==
    LET g == GcdTo(row.num, Len(row.num))
    IN IF g = 0 THEN row.num ELSE [d \in 1..Len(row.num) |-> row.num[d] \div g]

Normalize(rows) == [i \in 1..Len(rows) |-> NormalizeRow(rows[i])]

TokenizerCall(texts) ==
    [fn |-> "tokenizer", texts |-> texts, padding |-> TRUE, truncation |-> TRUE]

ModelCall(texts) == [fn |-> "model", texts |-> texts]

EmbedSuccess(sentence_embeddings) ==
    [success |-> TRUE, embedding |-> sentence_embeddings[1],
     dimension |-> Len(sentence_embeddings[1])]

EmbedFailure(msg) == [success |-> FALSE, error |-> msg, embedding |-> <<>>]

BatchSuccess_DimOfBatch(sentence_embeddings) ==
    [success |-> TRUE, embeddings |-> sentence_embeddings,
     count |-> Len(sentence_embeddings), dimension |-> Len(sentence_embeddings)]

BatchSuccess(sentence_embeddings) ==
    [success |-> TRUE, embeddings |-> sentence_embeddings,
     count |-> Len(sentence_embeddings), dimension |-> Len(sentence_embeddings[1])]

BatchFailure_Partial(msg) == [success |-> FALSE, error |-> msg, embeddings |-> <<<<0>>>>]

BatchFailure(msg) == [success |-> FALSE, error |-> msg, embeddings |-> <<>>]

\* generate_embedding(text) when the encoder behaves as enc.
generate_embedding(text, enc) ==
    LET texts == <<PyStrV(text)>>
        encoded_input == Tokenizer(texts, enc)
        model_output == Model(texts, enc)
    IN IF ~encoded_input.ok
       THEN [ret |-> EmbedFailure(encoded_input.msg), calls |-> <<TokenizerCall(texts)>>]
       ELSE IF ~model_output.ok
       THEN [ret |-> EmbedFailure(model_output.msg),
             calls |-> <<TokenizerCall(texts), ModelCall(texts)>>]
       ELSE [ret |-> EmbedSuccess(Normalize(mean_pooling(model_output.token_embeddings,
                                                          encoded_input.attention_mask))),
             calls |-> <<TokenizerCall(texts), ModelCall(texts)>>]

\* generate_embeddings_batch(texts) when the encoder behaves as enc.
generate_embeddings_batch(texts, enc) ==
    LET encoded_input == Tokenizer(texts, enc)
        model_output == Model(texts, enc)
    IN IF ~encoded_input.ok
       THEN [ret |-> BatchFailure(encoded_input.msg), calls |-> <<TokenizerCall(texts)>>]
       ELSE IF ~model_output.ok
       THEN [ret |-> BatchFailure(model_output.msg),
             calls |-> <<TokenizerCall(texts), ModelCall(texts)>>]
       ELSE [ret |-> BatchSuccess(Normalize(mean_pooling(model_output.token_embeddings,
                                                          encoded_input.attention_mask))),
             calls |-> <<TokenizerCall(texts), ModelCall(texts)>>]

EmbArgs ==
    {"hello world", "", "[\"a\", \"b\"]", "[\"a\"]", "[]", "[1, \"a\"]",
     "\"a\"", "null", "true", "42", "1e3", "{\"a\": 1}"}

EmbArgvs == {<<>>} \cup {<<a>> : a \in EmbArgs}

\* The text of single-text mode: str(texts) of the parsed value, or the
\* argument itself when json.loads raised JSONDecodeError.
SingleText(input_data) ==
    IF JsonLoads(input_data) = JSONDecodeError THEN input_data
    ELSE PyStr(JsonLoads(input_data))

\* isinstance(json.loads(input_data), list)
IsBatch(input_data) == JsonLoads(input_data).kind = "list"

\* The entrypoint of embedding_service.py.
EmbeddingMain ==
    /\ pc = "ready"
    /\ \E a \in EmbArgvs :
         IF Len(a) < 1
         THEN Exits("embedding", a, NoOracle, <<>>, <<>>, <<NoInputEnvelope>>, 1, "")
         ELSE IF IsBatch(a[1])
         THEN \E enc \in Encoders(JsonLoads(a[1]).items) :
                LET r == generate_embeddings_batch(JsonLoads(a[1]).items, enc)
                IN Exits("embedding", a, enc, r.calls, <<r.ret>>, <<r.ret>>, 0, "")
         ELSE \E enc \in Encoders(<<PyStrV(SingleText(a[1]))>>) :
                LET r == generate_embedding(SingleText(a[1]), enc)
                IN Exits("embedding", a, enc, r.calls, <<r.ret>>, <<r.ret>>, 0, "")

(***************************************************************************)
(* ner_service.py                                                          *)
(*                                                                         *)
(* A text of this service is a sequence of one-character strings.  An      *)
(* optional value (argparse leaves an absent option None) is <<>> for      *)
(* None and <<v>> for the value v.                                         *)
(***************************************************************************)
None == <<>>
Some(v) == <<v>>

Whitespace == {" ", "\n", "\t"}

RECURSIVE CondenseFrom(_, _, _, _)
\* " ".join(text.split()) from position i on: out is what has been joined,
\* gap tells that whitespace was passed since the last word character.
CondenseFrom(text, i, out, gap) ==
    IF i > Len(text) THEN out
    ELSE IF text[i] \in Whitespace THEN CondenseFrom(text, i + 1, out, TRUE)
    ELSE CondenseFrom(text, i + 1,
                      IF gap /\ out # <<>> THEN out \o <<" ", text[i]>> ELSE Append(out, text[i]),
                      FALSE)

\* condensed_text = " ".join(text.split())
Condense(text) == CondenseFrom(text, 1, <<>>, FALSE)

RECURSIVE ReplaceFrom(_, _, _)
\* word.replace('##', '') from position i on: the occurrences are taken
\* left to right without overlap, in one pass.
ReplaceFrom(word, i, out) ==
    IF i > Len(word) THEN out
    ELSE IF i < Len(word) /\ word[i] = "#" /\ word[i + 1] = "#"
    THEN ReplaceFrom(word, i + 2, out)
    ELSE ReplaceFrom(word, i + 1, Append(out, word[i]))

CleanWord_PrefixOnly(word) ==
    IF Len(word) >= 2 /\ word[1] = "#" /\ word[2] = "#"
    THEN SubSeq(word, 3, Len(word)) ELSE word

\* word = entity['word'].replace('##', '')
CleanWord(word) == ReplaceFrom(word, 1, <<>>)

\* dict.get(key, default)
Get(d, key, default) == IF key \in DOMAIN d THEN d[key] ELSE default

\* The characters of the words the NER pipeline may return.
WordChars == {"#", "a"}

Words == SeqsUpTo(WordChars, MaxWordLen)

\* The entity records the NER pipeline may return for a word: aggregated
\* (entity_group and offsets), raw (entity, no offsets) and unlabelled.
EntityRecords(w) ==
    {[entity_group |-> "PER", word |-> w, score |-> 9, start |-> 0, end |-> 4],
     [entity |-> "B-ORG", word |-> w, score |-> 7],
     [word |-> w, score |-> 5, start |-> 2, end |-> 3]}

\* A record without a score.
NoScoreRecord == [entity_group |-> "LOC", word |-> <<"a">>]

AllEntityRecords == UNION {EntityRecords(w) : w \in Words} \cup {NoScoreRecord}

\* What the NER pipeline may do with a text: raise, or answer entities.
NerOutcomes ==
    {[kind |-> "raise", msg |-> "inference failed", entities |-> <<>>]}
    \cup {[kind |-> "ok", msg |-> "", entities |-> es] :
            es \in SeqsUpTo(AllEntityRecords, MaxEntities)}

\* The dict appended for one entity the pipeline returned.
EntitySpan(entity) ==
    [entity_group |-> Get(entity, "entity_group", Get(entity, "entity", "UNKNOWN")),
     word |-> CleanWord(entity.word),
     score |-> entity.score,
     start |-> Get(entity, "start", 0),
     end |-> Get(entity, "end", 0)]

\* entity['score'] raises KeyError when the key is absent.
Malformed(entity) == "score" \notin DOMAIN entity

ExtractSuccess(entities) ==
    [success |-> TRUE, entities |-> entities, count |-> Len(entities)]

ExtractFailure(msg) == [success |-> FALSE, error |-> msg, entities |-> <<>>]

NerCall(condensed_text) == [fn |-> "ner_pipeline", text |-> condensed_text]

\* extract_entities(text) when the NER pipeline behaves as orc.
extract_entities(text, orc) ==
    LET condensed_text == Condense(text)
        results == orc.entities
        ret == IF orc.kind = "raise" THEN ExtractFailure(orc.msg)
               ELSE IF \E i \in 1..Len(results) : Malformed(results[i])
               THEN ExtractFailure("'score'")
               ELSE ExtractSuccess([i \in 1..Len(results) |-> EntitySpan(results[i])])
    IN [ret |-> ret, calls |-> <<NerCall(condensed_text)>>]

\* The files of the model: Path(p).is_file().
IsFile(p) == p \in {"empty.txt", "cv.txt", "locked.txt"}

\* read_text raises OSError on a path that is no file or cannot be read.
ReadText(p) ==
    CASE p = "cv.txt" -> [ok |-> TRUE, text |-> <<"A", "\n", "\n", "B">>]
      [] p = "empty.txt" -> [ok |-> TRUE, text |-> <<>>]
      [] OTHER -> [ok |-> FALSE, text |-> <<>>]

NerTextArgs == {None, Some(<<>>), Some(<<" ", "J", " ", " ", "S">>)}
NerFileArgs == {None, Some(""), Some("missing.txt"), Some("empty.txt"),
                Some("cv.txt"), Some("locked.txt")}

\* The command lines: those argparse accepts, as the namespace it makes of
\* them, and one it rejects (an unknown option).
NerArgvs ==
    {[accepted |-> TRUE, text |-> t, file |-> f] : t \in NerTextArgs, f \in NerFileArgs}
    \cup {[accepted |-> FALSE, text |-> None, file |-> None]}

\* if args.file
FileGiven(args) == args.file # None /\ args.file[1] # ""

\* if args.text
TextGiven(args) == args.text # None /\ Len(args.text[1]) > 0

UsesFile_Unchecked(args) == FileGiven(args)

\* if args.file: ... if file_path.is_file()
UsesFile(args) == FileGiven(args) /\ IsFile(args.file[1])

\* input_text after the --file and --text steps (the file was readable).
InputText(args) ==
    LET fromFile == IF UsesFile(args) THEN Some(ReadText(args.file[1]).text) ELSE None
    IN IF fromFile = None /\ TextGiven(args) THEN args.text ELSE fromFile

\* if not input_text
NoInput(input_text) == input_text = None \/ Len(input_text[1]) = 0

\* The entrypoint of ner_service.py.
NerMain ==
    /\ pc = "ready"
    /\ \E a \in NerArgvs :
         IF ~a.accepted
         THEN Exits("ner", a, NoOracle, <<>>, <<>>, <<>>, 2, "SystemExit")
         ELSE IF UsesFile(a) /\ ~ReadText(a.file[1]).ok
         THEN Exits("ner", a, NoOracle, <<>>, <<>>, <<>>, 1, "OSError")
         ELSE IF NoInput(InputText(a))
         THEN Exits("ner", a, NoOracle, <<>>, <<>>, <<NoInputEnvelope>>, 1, "")
         ELSE \E orc \in NerOutcomes :
                LET r == extract_entities(InputText(a)[1], orc)
                IN Exits("ner", a, orc, r.calls, <<r.ret>>, <<r.ret>>, 0, "")

\* The caller starts the next one-shot process.
Respawn ==
    /\ pc = "exited"
    /\ pc' = "ready"
    /\ svc' = "none"
    /\ argv' = <<>>
    /\ oracle' = NoOracle
    /\ calls' = <<>>
    /\ result' = <<>>
    /\ stdout' = <<>>
    /\ exitCode' = 0
    /\ uncaught' = ""

Init ==
    /\ pc = "ready"
    /\ svc = "none"
    /\ argv = <<>>
    /\ oracle = NoOracle
    /\ calls = <<>>
    /\ result = <<>>
    /\ stdout = <<>>
    /\ exitCode = 0
    /\ uncaught = ""

Next ==
    \/ ClassificationMain
    \/ EmbeddingMain
    \/ NerMain
    \/ Respawn

Spec == Init /\ [][Next]_vars

(***************************************************************************)
(* Properties.                                                             *)
(***************************************************************************)
Exited == pc = "exited"

\* Every envelope the process returned from a pipeline function or printed.
Emitted == {result[i] : i \in 1..Len(result)} \cup {stdout[i] : i \in 1..Len(stdout)}

PayloadKeys == {"skills", "embedding", "embeddings", "entities"}

\* C1: every emitted envelope with success = false has an error and an
\* empty payload collection; every one with success = true has no error.
C1_EnvelopeInvariant ==
    \A env \in Emitted :
        /\ ~env.success =>
              /\ "error" \in DOMAIN env
              /\ \A k \in PayloadKeys \cap DOMAIN env : env[k] = <<>>
        /\ env.success => "error" \notin DOMAIN env

\* A batch of two texts failed in the forward pass and the failure was printed.
C1_Witness ==
    /\ Exited /\ svc = "embedding" /\ Len(calls) = 2 /\ Len(calls[1].texts) = 2
    /\ stdout # <<>> /\ ~stdout[1].success /\ stdout[1].embeddings = <<>>

\* C2: every process prints exactly one JSON document, and one that ends
\* with a non-zero exit code prints a failure with an error string.
C2_AlwaysOneJsonDocument ==
    Exited =>
        /\ Len(stdout) = 1
        /\ exitCode # 0 => (~stdout[1].success /\ "error" \in DOMAIN stdout[1])

\* C3: with a candidate_labels argument that is not JSON (and a threshold
\* that is a float), the classifier is run on DEFAULT_SKILLS and one
\* envelope is printed.
C3_MalformedLabelsFallBack ==
    (/\ Exited /\ svc = "classification" /\ Len(argv) = 3
     /\ ClsThreshold(argv).ok /\ JsonLoads(argv[3]) = JSONDecodeError)
    => /\ uncaught = ""
       /\ calls = <<ClassifierCall(argv[1], DEFAULT_SKILLS)>>
       /\ Len(stdout) = 1

\* The collaborator, or the post-processing of its answer, raised.
InferenceRaised ==
    /\ calls # <<>>
    /\ CASE svc = "classification" -> oracle.kind \in {"raise", "nokeys"}
         [] svc = "embedding" ->
              \/ ~Tokenizer(calls[1].texts, oracle).ok
              \/ ~Model(calls[1].texts, oracle).ok
         [] svc = "ner" ->
              \/ oracle.kind = "raise"
              \/ \E i \in 1..Len(oracle.entities) : Malformed(oracle.entities[i])
         [] OTHER -> FALSE

\* No usable input text was supplied on the command line.
NoUsableText ==
    CASE svc = "ner" ->
           /\ argv.accepted
           /\ ~TextGiven(argv)
           /\ ~(/\ FileGiven(argv) /\ IsFile(argv.file[1])
                /\ ReadText(argv.file[1]).ok /\ ReadText(argv.file[1]).text # <<>>)
      [] OTHER -> Len(argv) < 1

\* C4: when the inference path raises, a failure envelope with the message
\* is returned and printed and the exit code is 0; the exit code is 1 only
\* when no usable input text was supplied.
C4_InferenceFailuresAreGraceful ==
    Exited =>
        /\ InferenceRaised =>
              /\ Len(result) = 1 /\ ~result[1].success /\ "error" \in DOMAIN result[1]
              /\ stdout = result
              /\ exitCode = 0
        /\ exitCode = 1 => NoUsableText

\* The classifier answered labels and scores arrays of the same length.
ClassifierAligned ==
    /\ Exited /\ svc = "classification" /\ calls # <<>>
    /\ oracle.kind = "ok" /\ Len(oracle.labels) = Len(oracle.scores)

\* C5: on aligned arrays, skills is the subsequence of the (label, score)
\* pairs with score >= threshold, in the classifier's order; so every
\* confidence is >= threshold, and count is the number of skills.
C5_SkillsAreThresholdSubsequence ==
    ClassifierAligned =>
        LET thr == ClsThreshold(argv).v
            pairs == [i \in 1..Len(oracle.labels) |-> <<oracle.labels[i], oracle.scores[i]>>]
            AtLeast(p) == p[2] >= thr
            kept == SelectSeq(pairs, AtLeast)
            env == result[1]
        IN /\ Len(result) = 1 /\ env.success
           /\ Len(env.skills) = Len(kept)
           /\ \A i \in 1..Len(kept) :
                 /\ env.skills[i].skill = kept[i][1]
                 /\ env.skills[i].confidence = kept[i][2]
                 /\ env.skills[i].confidence >= thr
           /\ env.count = Len(env.skills)

\* Of two pairs, the one below the threshold was dropped and the one equal
\* to the threshold was kept.
C5_Witness ==
    /\ ClassifierAligned /\ ClsThreshold(argv).v = 5
    /\ oracle.scores = <<3, 5>>
    /\ Len(result[1].skills) = 1 /\ result[1].skills[1].confidence = 5

\* The thresholds float() yields for the threshold arguments of the model.
Thresholds == {PyFloat(a).v : a \in {b \in ClsThresholdArgs : PyFloat(b).ok}}

SkillSet(env) == {env.skills[i] : i \in 1..Len(env.skills)}

\* classify_skills on this process's text and labels, with the classifier
\* answering as it did, at threshold t.
ClassifyAt(t) == classify_skills(argv[1], ClsCustomSkills(argv), t, oracle).ret

\* C6: for thresholds t1 < t2 the skills returned at t2 are among the
\* skills returned at t1 (the process ran at one of the two).
C6_ThresholdMonotone ==
    (Exited /\ svc = "classification" /\ calls # <<>>) =>
        \A t \in Thresholds :
            /\ ClsThreshold(argv).v < t => SkillSet(ClassifyAt(t)) \subseteq SkillSet(result[1])
            /\ t < ClsThreshold(argv).v => SkillSet(result[1]) \subseteq SkillSet(ClassifyAt(t))

\* The process kept two skills at 0.3, and 0.8 keeps only one of them.
C6_Witness ==
    /\ Exited /\ svc = "classification" /\ calls # <<>>
    /\ ClsThreshold(argv).v = 3 /\ Len(result[1].skills) = 2
    /\ Cardinality(SkillSet(ClassifyAt(8))) = 1

\* The argument selects batch mode with the parsed list, or single-text
\* mode with the argument itself as the text.
ModeFollowsArgument ==
    IF JsonLoads(argv[1]).kind = "list"
    THEN /\ calls[1] = TokenizerCall(JsonLoads(argv[1]).items)
         /\ "embeddings" \in DOMAIN result[1]
    ELSE /\ calls[1] = TokenizerCall(<<PyStrV(argv[1])>>)
         /\ "embedding" \in DOMAIN result[1]

\* C7: a JSON array selects batch mode with the parsed list (so does the
\* serialization of a list of texts); anything else selects single-text
\* mode, which embeds the argument exactly as given.
C7_ModeSelection ==
    (Exited /\ svc = "embedding" /\ Len(argv) = 1) =>
        /\ ModeFollowsArgument
        /\ \A xs \in {<<>>, <<"a">>, <<"a", "b">>} :
              JsonLoads(JsonDumpsTexts(xs)) = PyList([i \in 1..Len(xs) |-> PyStrV(xs[i])])

\* C8: for every text the encoder was asked about, the batch of that one
\* text and the single call make the same calls, succeed or fail together
\* with the same message, and on success agree on the vector and on the
\* dimension (the length of the vector), with count 1; the process's own
\* result is the one of the function it called.
C8_BatchOfOneEqualsSingle ==
    (Exited /\ svc = "embedding" /\ calls # <<>>) =>
        /\ \A t \in DOMAIN oracle :
              LET b == generate_embeddings_batch(<<PyStrV(t)>>, oracle)
                  s == generate_embedding(t, oracle)
              IN /\ b.calls = s.calls
                 /\ b.ret.success = s.ret.success
                 /\ ~b.ret.success => b.ret.error = s.ret.error
                 /\ b.ret.success =>
                       /\ b.ret.embeddings[1] = s.ret.embedding
                       /\ b.ret.count = 1
                       /\ b.ret.dimension = s.ret.dimension
                       /\ s.ret.dimension = Len(s.ret.embedding)
        /\ IF IsBatch(argv[1])
           THEN result[1] = generate_embeddings_batch(JsonLoads(argv[1]).items, oracle).ret
           ELSE result[1] = generate_embedding(SingleText(argv[1]), oracle).ret

\* The process embedded a batch of one text; the single call on that text
\* gives the same non-zero vector.
C8_Witness ==
    /\ Exited /\ svc = "embedding" /\ calls # <<>> /\ IsBatch(argv[1])
    /\ result[1].success /\ result[1].count = 1
    /\ result[1].embeddings[1] = <<3, 4>>
    /\ generate_embedding("a", oracle).ret.embedding = <<3, 4>>

ContainsMarker(word) ==
    \E i \in 1..(Len(word) - 1) : word[i] = "#" /\ word[i + 1] = "#"

\* C9: no word of an emitted entity contains '##'.
C9_NoMarkerInWords ==
    (Exited /\ svc = "ner" /\ Len(result) = 1) =>
        \A i \in 1..Len(result[1].entities) : ~ContainsMarker(result[1].entities[i].word)

\* The pipeline returned a word with a run of three '#' in the middle; the
\* entity emitted for it keeps one '#'.
C9_Witness ==
    /\ Exited /\ svc = "ner" /\ Len(result) = 1 /\ result[1].success
    /\ Len(oracle.entities) = 1 /\ oracle.entities[1].word = <<"a", "#", "#", "#">>
    /\ result[1].entities[1].word = <<"a", "#">>

\* No non-empty text is obtained from the arguments: --text is absent or
\* empty and --file is absent, empty or no existing file; or --file names an
\* existing file that is empty.
NoTextObtained ==
    \/ ~TextGiven(argv) /\ (~FileGiven(argv) \/ ~IsFile(argv.file[1]))
    \/ FileGiven(argv) /\ argv.file[1] = "empty.txt"

\* C10: when no non-empty text is obtained, the NER process prints the
\* no-input failure, exits with code 1, calls no model and raises nothing.
C10_NoInputExitsOne ==
    (Exited /\ svc = "ner" /\ argv.accepted /\ NoTextObtained) =>
        /\ stdout = <<NoInputEnvelope>>
        /\ exitCode = 1
        /\ calls = <<>>
        /\ uncaught = ""

\* --file named a missing file and --text was absent.
C10_Witness ==
    /\ Exited /\ svc = "ner" /\ argv.accepted
    /\ argv.file = Some("missing.txt") /\ argv.text = None
    /\ stdout = <<NoInputEnvelope>> /\ exitCode = 1

====
